---- MODULE Spec2Model ----
(***************************************************************************)
(* A model of e-asphyx/gpio: the sysfs Pin (gpio.go), the epoll reactor    *)
(* (poll_srv.go), the software debounce filter (gpio.go) and the bcm2708   *)
(* register driver (bcm2708/bcm2708.go).                                   *)
(***************************************************************************)
EXTENDS Integers, Sequences, FiniteSets, TLC

\* ------------------------------------------------------------------ bounds
\* The sysfs pins of the model; caller thread t is the one user of pin t.
Pins == {1, 2}
\* cap(pin.ch) is 64 in the source (gpio.go:278); the model scales it down.
ChanCap == 1
\* The wakeup pipe's capacity in bytes (64 KiB on Linux), scaled down.
PipeCap == 2

\* --------------------------------------------------------------- constants
\* A nil channel: len and cap are 0, close panics, send and receive block.
Nil == [nil |-> TRUE, buf |-> <<>>, closed |-> FALSE]
DirIn == 0
DirOut == 1
EdgeNone == 0
EdgeRising == 1
EdgeFalling == 2
EdgeBoth == 3
\* cap(srv.add) and cap(srv.remove)
QueueCap == 1
\* events[n].Fd of the wakeup pipe's read end; pin p's value file has fd p.
Wakeup == 0

Directions == {DirIn, DirOut}
Edges == {EdgeNone, EdgeRising, EdgeFalling, EdgeBoth}
\* The edge modes callers arm with.
ArmEdges == {EdgeRising, EdgeBoth}
\* The values callers write.
WriteValues == {0, 1, 2}

VARIABLES
    \* --- sysfs Pin (gpio.go) ---
    ch,         \* pin.ch: Nil, or the channel [buf, closed]
    trigger,    \* pin.trigger
    value,      \* the byte the pin's value file reads: "0" or "1"
    direction,  \* the text of the pin's direction file
    edge,       \* the text of the pin's edge file
    notify,     \* the value file has an unread edge event (EPOLLPRI ready)
    \* --- caller threads ---
    pc,         \* where thread t is in its current call
    op,         \* the call thread t is in, or returned from last
    ret,        \* the error that call returned ("-" while it runs)
    rval,       \* the value thread t's last successful Read returned
    \* --- Pin.Close (gpio.go) ---
    fdOpen,     \* pin.fd is open
    exported,   \* the pin is exported in sysfs
    wasArmed,   \* pin.ch was non-nil when thread t's Pin.Close began
    teardown,   \* the steps thread t's Pin.Close made so far: <<step, ok>>
    \* --- epollServer (poll_srv.go) ---
    add,        \* srv.add
    remove,     \* srv.remove
    wakeup,     \* unread bytes in the wakeup pipe
    pins,       \* serve's pins map (its keys)
    registered, \* descriptors registered with the epoll handle
    events,     \* events[n..nfds-1] of the current batch
    spc,        \* where serve is
    spin,       \* the pin of the event serve is handling
    sval,       \* val, as serve read it
    \* --- gpioDebounce and its dispatch goroutine (gpio.go) ---
    dstate,     \* the filter's life: none, read, arming, running, closing, ...
    interval,   \* interval, after NewDebounceWithInterval's substitution
    dtrigger,   \* trigger, as the goroutine captured it
    dvalue,     \* value, the baseline
    debounce,   \* debounce, the suppressing flag
    timer,      \* time left until the timer fires; TimerOff when it is idle
    timerC,     \* timer.C holds a tick
    gpc,        \* where the goroutine is
    gch,        \* whether the tr.Ch() the select evaluated was a channel
    gval,       \* val, while the goroutine publishes it
    outClosed,  \* out is closed
    quiet,      \* time since the last publication downstream, up to interval
    gapOK,      \* at each publication so far, quiet had reached interval
    \* --- bcm2835Driver (bcm2708/bcm2708.go) ---
    reg,        \* drv.reg, each word as the set of its bits that are 1
    mutex,      \* drv.mutex: 0 when free, else the thread that holds it
    dpc,        \* where thread t is in SetDirection
    dpin,       \* the pin of thread t's SetDirection
    ddir,       \* the dir of thread t's SetDirection
    dtmp,       \* drv.reg[offset], as thread t's SetDirection loaded it
    want,       \* the mode the last SetDirection stored for each pin
    nwrites,    \* calls of Write so far
    dlast,      \* the pin and value of the last Write
    drd,        \* the pin and result of a Read since the last Write
    dpull,      \* the pull of thread t's SetPullUpDown
    acc         \* what thread t's SetPullUpDown has done so far, in order

pinVars == <<ch, trigger, value, direction, edge, notify>>
callVars == <<pc, op, ret, rval>>
srvVars == <<add, remove, wakeup, pins, registered, events, spc, spin, sval>>
clsVars == <<fdOpen, exported, wasArmed, teardown>>
sysVars == <<pinVars, callVars, srvVars, clsVars>>
debVars == <<dstate, interval, dtrigger, dvalue, debounce, timer, timerC, gpc,
             gch, gval, outClosed, quiet, gapOK>>
pullVars == <<dpull, acc>>
drvVars == <<reg, mutex, dpc, dpin, ddir, dtmp, want, nwrites, dlast, drd,
             pullVars>>
vars == <<sysVars, debVars, drvVars>>

\* ----------------------------------------------------------------- helpers
\* make(chan int, 64)
MakeChan == [nil |-> FALSE, buf |-> <<>>, closed |-> FALSE]

\* setEdge's switch
edgeStr(e) ==
    CASE e = EdgeNone -> "none"
      [] e = EdgeRising -> "rising"
      [] e = EdgeFalling -> "falling"
      [] OTHER -> "both"

\* SetDirection's if
dirStr(d) == IF d = DirIn THEN "in" ELSE "out"

\* Pin.Write's byte
writeByte(v) == IF v # 0 THEN "1" ELSE "0"

\* Pin.read's decoding of the byte
readVal(b) == IF b = "1" THEN 1 ELSE 0

\* The orders in which epoll_wait may report the ready set S.
Perms(S) ==
    {s \in [1..Cardinality(S) -> S] :
        \A i, j \in 1..Cardinality(S) : i # j => s[i] # s[j]}

\* The kernel raises an edge event on a value file for the transitions its
\* edge file selects.
edgeFires(e, b) ==
    \/ e = "both"
    \/ e = "rising" /\ b = "1"
    \/ e = "falling" /\ b = "0"

\* ------------------------------------------------------------ sysfs Pin
\* Pin.Read without its test of pin.ch.
PinReadUnguarded(t) ==
    /\ pc[t] = "idle"
    /\ op' = [op EXCEPT ![t] = "Read"]
    /\ ret' = [ret EXCEPT ![t] = "nil"]
    /\ rval' = [rval EXCEPT ![t] = readVal(value[t])]
    /\ notify' = [notify EXCEPT ![t] = FALSE]
    /\ UNCHANGED <<ch, trigger, value, direction, edge, pc, srvVars>>

\* Pin.Read
PinReadCore(t) ==
    /\ pc[t] = "idle"
    /\ op' = [op EXCEPT ![t] = "Read"]
    /\ IF ch[t] # Nil
         THEN /\ ret' = [ret EXCEPT ![t] = "ErrTrigger"]
              /\ UNCHANGED <<notify, rval>>
         ELSE /\ ret' = [ret EXCEPT ![t] = "nil"]
              /\ rval' = [rval EXCEPT ![t] = readVal(value[t])]
              /\ notify' = [notify EXCEPT ![t] = FALSE]
    /\ UNCHANGED <<ch, trigger, value, direction, edge, pc, srvVars>>

PinRead(t) == PinReadCore(t) /\ UNCHANGED <<debVars, drvVars, clsVars>>

\* Pin.Write; sysfs refuses a write to the value file of an input pin.
PinWrite(t, v) ==
    /\ pc[t] = "idle"
    /\ op' = [op EXCEPT ![t] = "Write"]
    /\ IF ch[t] # Nil
         THEN /\ ret' = [ret EXCEPT ![t] = "ErrTrigger"]
              /\ UNCHANGED value
         ELSE IF direction[t] = "out"
           THEN /\ ret' = [ret EXCEPT ![t] = "nil"]
                /\ value' = [value EXCEPT ![t] = writeByte(v)]
           ELSE /\ ret' = [ret EXCEPT ![t] = "EIO"]
                /\ UNCHANGED value
    /\ UNCHANGED <<ch, trigger, direction, edge, notify, pc, rval, srvVars>>
    /\ UNCHANGED <<debVars, drvVars, clsVars>>

\* Pin.SetDirection
PinSetDirection(t, d) ==
    /\ pc[t] = "idle"
    /\ op' = [op EXCEPT ![t] = "SetDirection"]
    /\ IF ch[t] # Nil
         THEN /\ ret' = [ret EXCEPT ![t] = "ErrTrigger"]
              /\ UNCHANGED direction
         ELSE /\ ret' = [ret EXCEPT ![t] = "nil"]
              /\ direction' = [direction EXCEPT ![t] = dirStr(d)]
    /\ UNCHANGED <<ch, trigger, value, edge, notify, pc, rval, srvVars>>
    /\ UNCHANGED <<debVars, drvVars, clsVars>>

\* Pin.Trigger without its test of pin.ch.
PinTriggerRearm(t, e, ok) ==
    /\ pc[t] = "idle"
    /\ op' = [op EXCEPT ![t] = "Trigger"]
    /\ direction' = [direction EXCEPT ![t] = dirStr(DirIn)]
    /\ IF ok
         THEN /\ edge' = [edge EXCEPT ![t] = edgeStr(e)]
              /\ trigger' = [trigger EXCEPT ![t] = e]
              /\ ch' = [ch EXCEPT ![t] = MakeChan]
              /\ pc' = [pc EXCEPT ![t] = "addPin"]
              /\ ret' = [ret EXCEPT ![t] = "-"]
         ELSE /\ ret' = [ret EXCEPT ![t] = "EIO"]
              /\ UNCHANGED <<ch, trigger, edge, pc>>
    /\ UNCHANGED <<value, notify, rval, srvVars>>

\* Pin.Trigger up to the call of addPin: the armed check, SetDirection(DirIn),
\* setEdge(edge) (the write of the edge file succeeds or fails: ok), then the
\* assignments of pin.trigger and pin.ch.
PinTriggerCore(t, e, ok) ==
    /\ pc[t] = "idle"
    /\ op' = [op EXCEPT ![t] = "Trigger"]
    /\ IF ch[t] # Nil
         THEN /\ ret' = [ret EXCEPT ![t] = "nil"]
              /\ UNCHANGED <<ch, trigger, direction, edge, pc>>
         ELSE /\ direction' = [direction EXCEPT ![t] = dirStr(DirIn)]
              /\ IF ok
                   THEN /\ edge' = [edge EXCEPT ![t] = edgeStr(e)]
                        /\ trigger' = [trigger EXCEPT ![t] = e]
                        /\ ch' = [ch EXCEPT ![t] = MakeChan]
                        /\ pc' = [pc EXCEPT ![t] = "addPin"]
                        /\ ret' = [ret EXCEPT ![t] = "-"]
                   ELSE /\ ret' = [ret EXCEPT ![t] = "EIO"]
                        /\ UNCHANGED <<ch, trigger, edge, pc>>
    /\ UNCHANGED <<value, notify, rval, srvVars>>

PinTrigger(t, e, ok) == PinTriggerCore(t, e, ok) /\ UNCHANGED <<debVars, drvVars, clsVars>>

\* epollServer.addPin: srv.add <- pin blocks while the queue is full.
addPin(t) ==
    /\ pc[t] = "addPin"
    /\ Len(add) < QueueCap
    /\ add' = Append(add, t)
    /\ pc' = [pc EXCEPT ![t] = "addPinWake"]
    /\ UNCHANGED <<pinVars, op, ret, rval, remove, wakeup, pins, registered, events,
                   spc, spin, sval>>
    /\ UNCHANGED <<debVars, drvVars, clsVars>>

\* addPin's write of the wakeup byte, and Trigger's return.
addPinWake(t) ==
    /\ pc[t] = "addPinWake"
    /\ wakeup < PipeCap
    /\ wakeup' = wakeup + 1
    /\ pc' = [pc EXCEPT ![t] = "idle"]
    /\ ret' = [ret EXCEPT ![t] = "nil"]
    /\ UNCHANGED <<pinVars, op, rval, add, remove, pins, registered, events, spc,
                   spin, sval>>
    /\ UNCHANGED <<debVars, drvVars, clsVars>>

\* gpioTrigger.Close without its test of pin.ch.
TriggerCloseUnguarded(t) ==
    /\ pc[t] = "idle"
    /\ op' = [op EXCEPT ![t] = "Close"]
    /\ ret' = [ret EXCEPT ![t] = "-"]
    /\ pc' = [pc EXCEPT ![t] = "deletePin"]
    /\ UNCHANGED <<pinVars, rval, srvVars>>

\* gpioTrigger.Close up to the call of deletePin.
TriggerCloseCore(t) ==
    /\ pc[t] = "idle"
    /\ op' = [op EXCEPT ![t] = "Close"]
    /\ IF ch[t] = Nil
         THEN /\ ret' = [ret EXCEPT ![t] = "ErrInvalid"]
              /\ UNCHANGED pc
         ELSE /\ ret' = [ret EXCEPT ![t] = "-"]
              /\ pc' = [pc EXCEPT ![t] = "deletePin"]
    /\ UNCHANGED <<pinVars, rval, srvVars>>

TriggerClose(t) == TriggerCloseCore(t) /\ UNCHANGED <<debVars, drvVars, clsVars>>

\* epollServer.deletePin: srv.remove <- pin blocks while the queue is full.
deletePin(t) ==
    /\ pc[t] = "deletePin"
    /\ Len(remove) < QueueCap
    /\ remove' = Append(remove, t)
    /\ pc' = [pc EXCEPT ![t] = "deletePinWake"]
    /\ UNCHANGED <<pinVars, op, ret, rval, add, wakeup, pins, registered, events,
                   spc, spin, sval>>
    /\ UNCHANGED <<debVars, drvVars, clsVars>>

\* deletePin's write of the wakeup byte.
deletePinWake(t) ==
    /\ pc[t] = "deletePinWake"
    /\ wakeup < PipeCap
    /\ wakeup' = wakeup + 1
    /\ pc' = [pc EXCEPT ![t] = "drain"]
    /\ UNCHANGED <<pinVars, op, ret, rval, add, remove, pins, registered, events,
                   spc, spin, sval>>
    /\ UNCHANGED <<debVars, drvVars, clsVars>>

\* A turn of Close's loop that ends on an empty channel, closed or not.
CloseDrainNoWait(t) ==
    /\ pc[t] = "drain"
    /\ IF ch[t].buf # <<>>
         THEN /\ ch' = [ch EXCEPT ![t].buf = Tail(@)]
              /\ UNCHANGED pc
         ELSE /\ pc' = [pc EXCEPT ![t] = "clear"]
              /\ UNCHANGED ch
    /\ UNCHANGED <<trigger, value, direction, edge, notify, op, ret, rval, srvVars>>
    /\ UNCHANGED <<debVars, drvVars, clsVars>>

\* One turn of Close's "for range pin.ch": a buffered value is received and
\* discarded; the loop ends when the channel is closed and empty; it blocks
\* on an open, empty channel.
CloseDrain(t) ==
    /\ pc[t] = "drain"
    /\ IF ch[t].buf # <<>>
         THEN /\ ch' = [ch EXCEPT ![t].buf = Tail(@)]
              /\ UNCHANGED pc
         ELSE /\ ch[t].closed
              /\ pc' = [pc EXCEPT ![t] = "clear"]
              /\ UNCHANGED ch
    /\ UNCHANGED <<trigger, value, direction, edge, notify, op, ret, rval, srvVars>>
    /\ UNCHANGED <<debVars, drvVars, clsVars>>

\* Close's tail: pin.ch = nil, then setEdge(EdgeNone), whose error it returns.
CloseClear(t, ok) ==
    /\ pc[t] = "clear"
    /\ ch' = [ch EXCEPT ![t] = Nil]
    /\ IF ok
         THEN /\ edge' = [edge EXCEPT ![t] = edgeStr(EdgeNone)]
              /\ ret' = [ret EXCEPT ![t] = "nil"]
         ELSE /\ ret' = [ret EXCEPT ![t] = "EIO"]
              /\ UNCHANGED edge
    /\ pc' = [pc EXCEPT ![t] = "idle"]
    /\ UNCHANGED <<trigger, value, direction, notify, op, rval, srvVars>>
    /\ UNCHANGED <<debVars, drvVars, clsVars>>

\* The application receives one value from the channel Ch() returned.
Recv(t) ==
    /\ pc[t] = "idle"
    /\ ch[t] # Nil
    /\ ch[t].buf # <<>>
    /\ ch' = [ch EXCEPT ![t].buf = Tail(@)]
    /\ UNCHANGED <<trigger, value, direction, edge, notify, callVars, srvVars>>
    /\ UNCHANGED <<debVars, drvVars, clsVars>>

\* The level of an input pin changes; the kernel marks the value file ready
\* when the edge file selects the transition.
Interrupt(p) ==
    /\ direction[p] = "in"
    /\ LET b == IF value[p] = "1" THEN "0" ELSE "1" IN
         /\ value' = [value EXCEPT ![p] = b]
         /\ notify' = [notify EXCEPT ![p] = @ \/ edgeFires(edge[p], b)]
    /\ UNCHANGED <<ch, trigger, direction, edge, callVars, srvVars>>
    /\ UNCHANGED <<debVars, drvVars, clsVars>>

\* ---------------------------------------------------------- epollServer
\* What epoll_wait finds ready: the wakeup pipe while it holds a byte, and
\* each registered value file with an unread edge event.
Ready ==
    (IF wakeup > 0 THEN {Wakeup} ELSE {})
        \cup {p \in registered : notify[p]}

\* After an event is handled: n++ and the test n < nfds.
ServeNext(evs) == IF evs = <<>> THEN "EpollWait" ELSE "events"

\* pin and val of the pin branch go out of scope with the loop body.
NoPin == 0

\* unix.EpollWait(fd, events, -1)
serveEpollWait ==
    /\ spc = "EpollWait"
    /\ Ready # {}
    /\ \E evs \in Perms(Ready) : events' = evs
    /\ spc' = "events"
    /\ UNCHANGED <<pinVars, callVars, add, remove, wakeup, pins, registered,
                   spin, sval>>
    /\ UNCHANGED <<debVars, drvVars, clsVars>>

\* serveEvent with the wakeup branch going back to the events once the byte
\* is read, the queues left as they are.
serveEventNoDrain ==
    /\ spc = "events"
    /\ LET e == Head(events) IN
         IF e = Wakeup
           THEN /\ wakeup > 0
                /\ wakeup' = wakeup - 1
                /\ spc' = ServeNext(Tail(events))
                /\ events' = Tail(events)
                /\ UNCHANGED <<notify, spin, sval>>
           ELSE IF e \in pins
             THEN /\ sval' = readVal(value[e])
                  /\ notify' = [notify EXCEPT ![e] = FALSE]
                  /\ spin' = e
                  /\ spc' = "publish"
                  /\ events' = Tail(events)
                  /\ UNCHANGED wakeup
             ELSE /\ events' = Tail(events)
                  /\ spc' = ServeNext(Tail(events))
                  /\ UNCHANGED <<notify, wakeup, spin, sval>>
    /\ UNCHANGED <<ch, trigger, value, direction, edge, callVars, add, remove,
                   pins, registered>>
    /\ UNCHANGED <<debVars, drvVars, clsVars>>

\* The head of the loop body: the wakeup branch reads one byte; the pin
\* branch looks the descriptor up and reads the value; any other event is
\* skipped.
serveEvent ==
    /\ spc = "events"
    /\ LET e == Head(events) IN
         IF e = Wakeup
           THEN /\ wakeup > 0
                /\ wakeup' = wakeup - 1
                /\ spc' = "add"
                /\ events' = Tail(events)
                /\ UNCHANGED <<notify, spin, sval>>
           ELSE IF e \in pins
             THEN /\ sval' = readVal(value[e])
                  /\ notify' = [notify EXCEPT ![e] = FALSE]
                  /\ spin' = e
                  /\ spc' = "publish"
                  /\ events' = Tail(events)
                  /\ UNCHANGED wakeup
             ELSE /\ events' = Tail(events)
                  /\ spc' = ServeNext(Tail(events))
                  /\ UNCHANGED <<notify, wakeup, spin, sval>>
    /\ UNCHANGED <<ch, trigger, value, direction, edge, callVars, add, remove,
                   pins, registered>>
    /\ UNCHANGED <<debVars, drvVars, clsVars>>

\* serveAdd with the test of the map inverted: a pin not yet tracked is
\* skipped.
serveAddInverted ==
    /\ spc = "add"
    /\ IF Len(add) # 0
         THEN LET pin == Head(add) IN
              /\ add' = Tail(add)
              /\ IF pin \notin pins
                   THEN UNCHANGED <<pins, registered>>
                   ELSE /\ pins' = pins \cup {pin}
                        /\ registered' = registered \cup {pin}
              /\ UNCHANGED spc
         ELSE /\ spc' = "remove"
              /\ UNCHANGED <<add, pins, registered>>
    /\ UNCHANGED <<pinVars, callVars, remove, wakeup, events, spin, sval>>
    /\ UNCHANGED <<debVars, drvVars, clsVars>>

\* One turn of "for len(srv.add) != 0".
serveAdd ==
    /\ spc = "add"
    /\ IF Len(add) # 0
         THEN LET pin == Head(add) IN
              /\ add' = Tail(add)
              /\ IF pin \in pins
                   THEN UNCHANGED <<pins, registered>>
                   ELSE /\ pins' = pins \cup {pin}
                        /\ registered' = registered \cup {pin}
              /\ UNCHANGED spc
         ELSE /\ spc' = "remove"
              /\ UNCHANGED <<add, pins, registered>>
    /\ UNCHANGED <<pinVars, callVars, remove, wakeup, events, spin, sval>>
    /\ UNCHANGED <<debVars, drvVars, clsVars>>

\* serveRemove without "delete(pins, int32(fd))".
serveRemoveKeepsPin ==
    /\ spc = "remove"
    /\ IF Len(remove) # 0
         THEN LET p == Head(remove) IN
              /\ remove' = Tail(remove)
              /\ IF p \notin pins
                   THEN UNCHANGED <<pins, registered, ch, spc>>
                   ELSE /\ registered' = registered \ {p}
                        /\ UNCHANGED pins
                        /\ IF ch[p] = Nil \/ ch[p].closed
                             THEN /\ spc' = "panic"
                                  /\ UNCHANGED ch
                             ELSE /\ ch' = [ch EXCEPT ![p].closed = TRUE]
                                  /\ UNCHANGED spc
         ELSE /\ spc' = ServeNext(events)
              /\ UNCHANGED <<remove, pins, registered, ch>>
    /\ UNCHANGED <<trigger, value, direction, edge, notify, callVars, add,
                   wakeup, events, spin, sval>>
    /\ UNCHANGED <<debVars, drvVars, clsVars>>

\* serveRemove without the test of the map: the channel of an untracked pin
\* is closed too.
serveRemoveUntracked ==
    /\ spc = "remove"
    /\ IF Len(remove) # 0
         THEN LET p == Head(remove) IN
              /\ remove' = Tail(remove)
              /\ registered' = registered \ {p}
              /\ pins' = pins \ {p}
              /\ IF ch[p] = Nil \/ ch[p].closed
                   THEN /\ spc' = "panic"
                        /\ UNCHANGED ch
                   ELSE /\ ch' = [ch EXCEPT ![p].closed = TRUE]
                        /\ UNCHANGED spc
         ELSE /\ spc' = ServeNext(events)
              /\ UNCHANGED <<remove, pins, registered, ch>>
    /\ UNCHANGED <<trigger, value, direction, edge, notify, callVars, add,
                   wakeup, events, spin, sval>>
    /\ UNCHANGED <<debVars, drvVars, clsVars>>

\* One turn of "for len(srv.remove) != 0". close() of a nil or closed channel
\* panics.
serveRemove ==
    /\ spc = "remove"
    /\ IF Len(remove) # 0
         THEN LET p == Head(remove) IN
              /\ remove' = Tail(remove)
              /\ IF p \notin pins
                   THEN UNCHANGED <<pins, registered, ch, spc>>
                   ELSE /\ registered' = registered \ {p}
                        /\ pins' = pins \ {p}
                        /\ IF ch[p] = Nil \/ ch[p].closed
                             THEN /\ spc' = "panic"
                                  /\ UNCHANGED ch
                             ELSE /\ ch' = [ch EXCEPT ![p].closed = TRUE]
                                  /\ UNCHANGED spc
         ELSE /\ spc' = ServeNext(events)
              /\ UNCHANGED <<remove, pins, registered, ch>>
    /\ UNCHANGED <<trigger, value, direction, edge, notify, callVars, add,
                   wakeup, events, spin, sval>>
    /\ UNCHANGED <<debVars, drvVars, clsVars>>

\* "if len(pin.ch) != cap(pin.ch)"; both are 0 for a nil channel.
chanHasRoom(c) == c # Nil /\ Len(c.buf) # ChanCap

\* A fatal error ends serve: EpollWait fails (not EINTR); the read of the
\* wakeup pipe or of a tracked pin's value file fails; EpollCtl fails for a
\* pin just received from srv.add and put in the map, or for a tracked pin
\* just received from srv.remove. serve returns and never runs again.
serveFail ==
    /\ \/ /\ spc = "EpollWait"
          /\ UNCHANGED <<add, remove, pins>>
       \/ /\ spc = "events"
          /\ Head(events) = Wakeup \/ Head(events) \in pins
          /\ UNCHANGED <<add, remove, pins>>
       \/ /\ spc = "add"
          /\ Len(add) # 0
          /\ Head(add) \notin pins
          /\ add' = Tail(add)
          /\ pins' = pins \cup {Head(add)}
          /\ UNCHANGED remove
       \/ /\ spc = "remove"
          /\ Len(remove) # 0
          /\ Head(remove) \in pins
          /\ remove' = Tail(remove)
          /\ UNCHANGED <<add, pins>>
    /\ spc' = "dead"
    /\ UNCHANGED <<pinVars, callVars, wakeup, registered, events, spin, sval>>
    /\ UNCHANGED <<debVars, drvVars, clsVars>>

\* servePublish without the test: the send is always attempted.
servePublishAlways ==
    /\ spc = "publish"
    /\ spc' = "send"
    /\ UNCHANGED <<pinVars, callVars, add, remove, wakeup, pins, registered,
                   events, spin, sval>>
    /\ UNCHANGED <<debVars, drvVars, clsVars>>

\* The test that guards the publication.
servePublish ==
    /\ spc = "publish"
    /\ IF chanHasRoom(ch[spin])
         THEN /\ spc' = "send"
              /\ UNCHANGED <<spin, sval>>
         ELSE /\ spc' = ServeNext(events)
              /\ spin' = NoPin
              /\ sval' = 0
    /\ UNCHANGED <<pinVars, callVars, add, remove, wakeup, pins, registered,
                   events>>
    /\ UNCHANGED <<debVars, drvVars, clsVars>>

\* "pin.ch <- val": blocks on a full or nil channel, panics on a closed one.
serveSend ==
    /\ spc = "send"
    /\ ch[spin] # Nil
    /\ IF ch[spin].closed
         THEN /\ spc' = "panic"
              /\ UNCHANGED <<ch, spin, sval>>
         ELSE /\ Len(ch[spin].buf) < ChanCap
              /\ ch' = [ch EXCEPT ![spin].buf = Append(@, sval)]
              /\ spc' = ServeNext(events)
              /\ spin' = NoPin
              /\ sval' = 0
    /\ UNCHANGED <<trigger, value, direction, edge, notify, callVars, add,
                   remove, wakeup, pins, registered, events>>
    /\ UNCHANGED <<debVars, drvVars, clsVars>>

serve ==
    \/ serveEpollWait
    \/ serveEvent
    \/ serveAdd
    \/ serveRemove
    \/ servePublish
    \/ serveSend

\* ------------------------------------------------------- gpioDebounce
\* DefaultDebounceInterval, in milliseconds, the unit of time of the model.
DefaultDebounceInterval == 5
\* The interval callers ask for, when they give one of their own.
AskInterval == 2
\* timer, while no expiry is pending.
TimerOff == -1
\* The intervals NewDebounceWithInterval is called with.
DebIntervals == {-1, 0, AskInterval}
\* The pins a debounce filter is built on.
DebPins == {1}

\* "if interval < 0 { interval = DefaultDebounceInterval }"
effInterval(i) == IF i < 0 THEN DefaultDebounceInterval ELSE i

\* The test that makes val a candidate transition.
candidate(trg, val, base) ==
    \/ trg = EdgeRising /\ val = 1
    \/ trg = EdgeFalling /\ val = 0
    \/ val # base

\* The channel a reference held by the goroutine denotes: Close clears
\* pin.ch only after it saw the channel closed and drained.
chanOf(p) == IF ch[p] = Nil THEN [nil |-> FALSE, buf |-> <<>>, closed |-> TRUE]
             ELSE ch[p]

\* NewDebounceWithInterval: the interval's substitution and pin.Read().
DebNewRead(t, i) ==
    /\ dstate = "none"
    /\ PinReadCore(t)
    /\ interval' = effInterval(i)
    /\ quiet' = interval'
    /\ IF ret'[t] = "nil"
         THEN /\ dvalue' = rval'[t]
              /\ dstate' = "read"
         ELSE UNCHANGED <<dvalue, dstate>>
    /\ UNCHANGED <<dtrigger, debounce, timer, timerC, gpc, gch, gval,
                   outClosed, gapOK>>
    /\ UNCHANGED <<drvVars, clsVars>>

\* NewDebounceWithInterval: pin.Trigger(trigger), up to addPin.
DebNewTrigger(t, e) ==
    /\ dstate = "read"
    /\ PinTriggerCore(t, e, TRUE)
    /\ dtrigger' = e
    /\ dstate' = "arming"
    /\ UNCHANGED <<interval, dvalue, debounce, timer, timerC, gpc, gch, gval,
                   outClosed, quiet, gapOK>>
    /\ UNCHANGED <<drvVars, clsVars>>

\* NewDebounceWithInterval after pin.Trigger returned: out is made and the
\* goroutine started.
DebNewStart(t) ==
    /\ dstate = "arming"
    /\ pc[t] = "idle"
    /\ dstate' = "running"
    /\ gpc' = "start"
    /\ UNCHANGED <<drvVars, sysVars, interval, dtrigger, dvalue, debounce, timer,
                   timerC, gch, gval, outClosed, quiet, gapOK>>

\* "timer := time.NewTimer(interval)" and "debounce = false".
goStart ==
    /\ gpc = "start"
    /\ timer' = interval
    /\ debounce' = FALSE
    /\ gpc' = "loop"
    /\ UNCHANGED <<drvVars, sysVars, dstate, interval, dtrigger, dvalue, timerC, gch,
                   gval, outClosed, quiet, gapOK>>

\* The select is entered: tr.Ch() is evaluated, which reads pin.ch.
goSelect(p) ==
    /\ gpc = "loop"
    /\ gch' = (ch[p] # Nil)
    /\ gpc' = "select"
    /\ UNCHANGED <<drvVars, sysVars, dstate, interval, dtrigger, dvalue, debounce,
                   timer, timerC, gval, outClosed, quiet, gapOK>>

\* "case <-timer.C: debounce = false"
goTimer ==
    /\ gpc = "select"
    /\ timerC
    /\ timerC' = FALSE
    /\ debounce' = FALSE
    /\ gpc' = "loop"
    /\ UNCHANGED <<drvVars, sysVars, dstate, interval, dtrigger, dvalue, timer, gch,
                   gval, outClosed, quiet, gapOK>>

\* The receive case publishing every candidate, suppressing or not.
goRecvUnsuppressed(p) ==
    /\ gpc = "select"
    /\ gch
    /\ LET c == chanOf(p) IN
         IF c.buf # <<>>
           THEN LET val == Head(c.buf) IN
                /\ ch' = [ch EXCEPT ![p].buf = Tail(@)]
                /\ IF candidate(dtrigger, val, dvalue)
                     THEN /\ dvalue' = val
                          /\ gpc' = "send"
                          /\ gval' = val
                     ELSE /\ gpc' = "loop"
                          /\ UNCHANGED <<dvalue, gval>>
                /\ UNCHANGED outClosed
           ELSE /\ c.closed
                /\ outClosed' = TRUE
                /\ gpc' = "exit"
                /\ UNCHANGED <<ch, dvalue, gval>>
    /\ UNCHANGED <<trigger, value, direction, edge, notify, callVars, srvVars,
                   dstate, interval, dtrigger, debounce, timer, timerC, gch,
                   quiet, gapOK>>
    /\ UNCHANGED <<drvVars, clsVars>>

\* "case val, ok := <-tr.Ch()": a receive from a nil channel is never ready;
\* a closed and drained channel yields !ok, and the goroutine closes out and
\* returns; a value is tested and, when it is a candidate, becomes the
\* baseline and is published unless the filter is suppressing.
goRecv(p) ==
    /\ gpc = "select"
    /\ gch
    /\ LET c == chanOf(p) IN
         IF c.buf # <<>>
           THEN LET val == Head(c.buf) IN
                /\ ch' = [ch EXCEPT ![p].buf = Tail(@)]
                /\ IF candidate(dtrigger, val, dvalue)
                     THEN /\ dvalue' = val
                          /\ IF ~debounce
                               THEN /\ gpc' = "send"
                                    /\ gval' = val
                               ELSE /\ gpc' = "loop"
                                    /\ UNCHANGED gval
                     ELSE /\ gpc' = "loop"
                          /\ UNCHANGED <<dvalue, gval>>
                /\ UNCHANGED outClosed
           ELSE /\ c.closed
                /\ outClosed' = TRUE
                /\ gpc' = "exit"
                /\ UNCHANGED <<ch, dvalue, gval>>
    /\ UNCHANGED <<trigger, value, direction, edge, notify, callVars, srvVars,
                   dstate, interval, dtrigger, debounce, timer, timerC, gch,
                   quiet, gapOK>>
    /\ UNCHANGED <<drvVars, clsVars>>

\* "out <- val" completes with a receiver, then "debounce = true" and
\* "timer.Reset(interval)". Reset of a timer that fired and whose tick was
\* not received leaves the tick in timer.C or discards it, as the Go
\* runtime at hand does: drop.
published(drop) ==
    /\ gpc = "send"
    /\ debounce' = TRUE
    /\ timer' = interval
    /\ timerC' = (timerC /\ ~drop)
    /\ gpc' = "loop"
    /\ gval' = 0
    /\ gapOK' = (gapOK /\ quiet >= interval)
    /\ quiet' = 0

\* The application receives a value from the filter's Ch().
DebRecv(drop) ==
    /\ published(drop)
    /\ UNCHANGED <<drvVars, sysVars, dstate, interval, dtrigger, dvalue, gch, outClosed>>

\* gpioDebounce.Close: d.src.Close(), up to deletePin.
DebClose(t) ==
    /\ dstate = "running"
    /\ TriggerCloseCore(t)
    /\ dstate' = "closing"
    /\ UNCHANGED <<interval, dtrigger, dvalue, debounce, timer, timerC, gpc,
                   gch, gval, outClosed, quiet, gapOK>>
    /\ UNCHANGED <<drvVars, clsVars>>

\* gpioDebounce.Close after d.src.Close() returned: its error is returned;
\* else one turn of "for range d.ch", which receives and discards a value
\* the goroutine publishes, ends when out is closed, and blocks otherwise.
DebCloseDrain(t, drop) ==
    /\ dstate = "closing"
    /\ pc[t] = "idle"
    /\ IF ret[t] # "nil"
         THEN /\ dstate' = "failed"
              /\ UNCHANGED <<debounce, timer, timerC, gpc, gval, quiet, gapOK>>
         ELSE IF gpc = "send"
           THEN /\ published(drop)
                /\ UNCHANGED dstate
           ELSE /\ outClosed
                /\ dstate' = "closed"
                /\ UNCHANGED <<debounce, timer, timerC, gpc, gval, quiet,
                               gapOK>>
    /\ UNCHANGED <<drvVars, sysVars, interval, dtrigger, dvalue, gch, outClosed>>

\* The runtime fires the timer when its time is up: a tick is put in
\* timer.C unless one is there.
TimerFire ==
    /\ timer = 0
    /\ timer' = TimerOff
    /\ timerC' = TRUE
    /\ UNCHANGED <<drvVars, sysVars, dstate, interval, dtrigger, dvalue, debounce, gpc,
                   gch, gval, outClosed, quiet, gapOK>>

\* One unit of time passes; a timer whose time is up fires first.
Tick ==
    /\ gpc \notin {"off", "exit"}
    /\ timer # 0
    /\ timer' = IF timer > 0 THEN timer - 1 ELSE timer
    /\ quiet' = IF quiet < interval THEN quiet + 1 ELSE quiet
    /\ UNCHANGED <<drvVars, sysVars, dstate, interval, dtrigger, dvalue, debounce,
                   timerC, gpc, gch, gval, outClosed, gapOK>>

\* ------------------------------------------------------------- Pin.Close
\* Pin.Close begins: with pin.ch non-nil it calls gpioTrigger.Close, which
\* goes on to deletePin; else it goes on to pin.fd.Close().
PinClose(t) ==
    /\ pc[t] = "idle"
    /\ op' = [op EXCEPT ![t] = "PinClose"]
    /\ ret' = [ret EXCEPT ![t] = "-"]
    /\ wasArmed' = [wasArmed EXCEPT ![t] = (ch[t] # Nil)]
    /\ teardown' = [teardown EXCEPT ![t] = <<>>]
    /\ pc' = [pc EXCEPT ![t] = IF ch[t] # Nil THEN "deletePin" ELSE "fdClose"]
    /\ UNCHANGED <<pinVars, rval, srvVars, fdOpen, exported>>
    /\ UNCHANGED <<debVars, drvVars>>

\* Pin.Close with gpioTrigger.Close's error dropped.
PinCloseDisarmedOn(t, ok) ==
    /\ pc[t] = "clear"
    /\ op[t] = "PinClose"
    /\ ch' = [ch EXCEPT ![t] = Nil]
    /\ IF ok THEN edge' = [edge EXCEPT ![t] = edgeStr(EdgeNone)]
             ELSE UNCHANGED edge
    /\ teardown' = [teardown EXCEPT ![t] = Append(@, <<"disarm", ok>>)]
    /\ pc' = [pc EXCEPT ![t] = "fdClose"]
    /\ UNCHANGED <<trigger, value, direction, notify, op, ret, rval, srvVars,
                   fdOpen, exported, wasArmed>>
    /\ UNCHANGED <<debVars, drvVars>>

\* gpioTrigger.Close's tail inside Pin.Close (pin.ch = nil, setEdge), and
\* Pin.Close's test of the error it returned.
PinCloseDisarmed(t, ok) ==
    /\ pc[t] = "clear"
    /\ op[t] = "PinClose"
    /\ ch' = [ch EXCEPT ![t] = Nil]
    /\ teardown' = [teardown EXCEPT ![t] = Append(@, <<"disarm", ok>>)]
    /\ IF ok
         THEN /\ edge' = [edge EXCEPT ![t] = edgeStr(EdgeNone)]
              /\ pc' = [pc EXCEPT ![t] = "fdClose"]
              /\ UNCHANGED ret
         ELSE /\ ret' = [ret EXCEPT ![t] = "EIO"]
              /\ pc' = [pc EXCEPT ![t] = "idle"]
              /\ UNCHANGED edge
    /\ UNCHANGED <<trigger, value, direction, notify, op, rval, srvVars,
                   fdOpen, exported, wasArmed>>
    /\ UNCHANGED <<debVars, drvVars>>

\* pin.fd.Close(): closing a file that is closed already is an error.
PinCloseFd(t, ok) ==
    /\ pc[t] = "fdClose"
    /\ LET good == ok /\ fdOpen[t] IN
         /\ teardown' = [teardown EXCEPT ![t] = Append(@, <<"fd", good>>)]
         /\ IF good
              THEN /\ fdOpen' = [fdOpen EXCEPT ![t] = FALSE]
                   /\ pc' = [pc EXCEPT ![t] = "unexport"]
                   /\ UNCHANGED ret
              ELSE /\ ret' = [ret EXCEPT ![t] = "EIO"]
                   /\ pc' = [pc EXCEPT ![t] = "idle"]
                   /\ UNCHANGED fdOpen
    /\ UNCHANGED <<pinVars, op, rval, srvVars, exported, wasArmed>>
    /\ UNCHANGED <<debVars, drvVars>>

\* openWriteCloseFile("/sys/class/gpio/unexport", ...), whose error Pin.Close
\* returns.
PinCloseUnexport(t, ok) ==
    /\ pc[t] = "unexport"
    /\ LET good == ok /\ exported[t] IN
         /\ teardown' = [teardown EXCEPT ![t] = Append(@, <<"unexport", good>>)]
         /\ exported' = [exported EXCEPT ![t] = exported[t] /\ ~good]
         /\ ret' = [ret EXCEPT ![t] = IF good THEN "nil" ELSE "EIO"]
    /\ pc' = [pc EXCEPT ![t] = "idle"]
    /\ UNCHANGED <<pinVars, op, rval, srvVars, fdOpen, wasArmed>>
    /\ UNCHANGED <<debVars, drvVars>>

\* ------------------------------------------------- bcm2835Driver (bcm2708)
\* The highest pin index the calls are given.
MaxPin == 53
\* Calls of Write in a behaviour.
MaxWrites == 1

fselOffset == 0
setOffset == 7
clrOffset == 10
pinLevelOffset == 13
pullUpDnOffset == 37
pullUpDnClkOffset == 38

\* The bit positions of a uint32.
Bits == 0 .. 31

\* uint32 arithmetic on a word held as the set of its 1 bits: w << n with
\* the bits shifted past bit 31 lost, w >> n, a & b, a &^ b, a | b.
shl(w, n) == {b + n : b \in w} \cap Bits
shr(w, n) == {b - n : b \in w} \cap Bits
and(a, b) == a \cap b
andNot(a, b) == a \ b
or(a, b) == a \cup b

\* The words 1 and 7, and uint32(mode).
W1 == {0}
W7 == {0, 1, 2}
modeWord(mode) == IF mode = 0 THEN {} ELSE W1

\* The words of the window that hold state: function select and pin level.
FselWords == fselOffset .. fselOffset + MaxPin \div 10
LevelWords == pinLevelOffset .. pinLevelOffset + MaxPin \div 32
SetWords == setOffset .. setOffset + MaxPin \div 32
ClrWords == clrOffset .. clrOffset + MaxPin \div 32
\* The pull control word and the pull clock words.
PullWords == {pullUpDnOffset} \cup
             (pullUpDnClkOffset .. pullUpDnClkOffset + MaxPin \div 32)

\* "drv.reg[o] = w" as the chip applies it: a word stored in the set bank
\* raises, and a word stored in the clear bank lowers, the levels of the bits
\* that are 1 in it; the level words are read-only; a function select word
\* and a pull word keep what is stored.
store(r, o, w) ==
    IF o \in SetWords
      THEN [r EXCEPT ![pinLevelOffset + (o - setOffset)] = @ \cup w]
      ELSE IF o \in ClrWords
        THEN [r EXCEPT ![pinLevelOffset + (o - clrOffset)] = @ \ w]
        ELSE IF o \in FselWords \cup PullWords
          THEN [r EXCEPT ![o] = w]
          ELSE r

\* Pin.Read's result on the window r.
pinLevel(r, pin) ==
    LET offset == pinLevelOffset + pin \div 32
    IN  IF and(shr(r[offset], pin % 32), W1) # {} THEN 1 ELSE 0

\* The three bits Pin.Direction reads, and its result.
fselField(r, pin) ==
    LET offset == fselOffset + pin \div 10
        shift == (pin % 10) * 3
    IN  and(shr(r[offset], shift), W7)

Direction(r, pin) == IF fselField(r, pin) = {} THEN DirIn ELSE DirOut

\* No Read since the last Write; no SetDirection of a pin yet.
NoRead == <<>>
NoMode == -1

DrvThreads == {1, 2}
\* The pins SetDirection is called on: 0 and 9 share word 0 (shifts 0 and
\* 27), 10 is the first field of word 1, 53 the last pin.
DirPins == {0, 9, 10, MaxPin}

\* Pin.Write with the bank's first word for every pin.
DrvWriteFirstWord(p, v) ==
    /\ nwrites < MaxWrites
    /\ LET offset == IF v # 0 THEN setOffset ELSE clrOffset
       IN  reg' = store(reg, offset, shl(W1, p % 32))
    /\ nwrites' = nwrites + 1
    /\ dlast' = <<p, v>>
    /\ drd' = NoRead
    /\ UNCHANGED <<mutex, dpc, dpin, ddir, dtmp, want, sysVars, debVars, pullVars>>

\* Pin.Write
DrvWrite(p, v) ==
    /\ nwrites < MaxWrites
    /\ LET offset == IF v # 0 THEN setOffset + p \div 32
                              ELSE clrOffset + p \div 32
       IN  reg' = store(reg, offset, shl(W1, p % 32))
    /\ nwrites' = nwrites + 1
    /\ dlast' = <<p, v>>
    /\ drd' = NoRead
    /\ UNCHANGED <<mutex, dpc, dpin, ddir, dtmp, want, sysVars, debVars, pullVars>>

\* Pin.Read
DrvRead(p) ==
    /\ drd = NoRead
    /\ drd' = <<p, pinLevel(reg, p)>>
    /\ UNCHANGED <<reg, mutex, dpc, dpin, ddir, dtmp, want, nwrites, dlast,
                   sysVars, debVars, pullVars>>

\* Pin.SetDirection is called by thread t, on a pin no other thread is
\* setting.
DrvSetDirection(t, p, d) ==
    /\ dpc[t] = "idle"
    /\ \A u \in DrvThreads \ {t} : dpc[u] = "idle" \/ dpin[u] # p
    /\ dpc' = [dpc EXCEPT ![t] = "Lock"]
    /\ dpin' = [dpin EXCEPT ![t] = p]
    /\ ddir' = [ddir EXCEPT ![t] = d]
    /\ UNCHANGED <<reg, mutex, dtmp, want, nwrites, dlast, drd,
                   sysVars, debVars, pullVars>>

\* SetDirection going on without drv.mutex.
SetDirLockSkipped(t) ==
    /\ dpc[t] = "Lock"
    /\ mutex' = t
    /\ dpc' = [dpc EXCEPT ![t] = "load"]
    /\ UNCHANGED <<reg, dpin, ddir, dtmp, want, nwrites, dlast, drd,
                   sysVars, debVars, pullVars>>

\* drv.mutex.Lock()
SetDirLock(t) ==
    /\ dpc[t] = "Lock"
    /\ mutex = 0
    /\ mutex' = t
    /\ dpc' = [dpc EXCEPT ![t] = "load"]
    /\ UNCHANGED <<reg, dpin, ddir, dtmp, want, nwrites, dlast, drd,
                   sysVars, debVars, pullVars>>

\* The read of drv.reg[offset] in the assignment.
SetDirLoad(t) ==
    /\ dpc[t] = "load"
    /\ dtmp' = [dtmp EXCEPT ![t] = reg[fselOffset + dpin[t] \div 10]]
    /\ dpc' = [dpc EXCEPT ![t] = "store"]
    /\ UNCHANGED <<reg, mutex, dpin, ddir, want, nwrites, dlast, drd,
                   sysVars, debVars, pullVars>>

\* The store of the assignment.
SetDirStore(t) ==
    /\ dpc[t] = "store"
    /\ LET offset == fselOffset + dpin[t] \div 10
           shift == (dpin[t] % 10) * 3
           mode == IF ddir[t] = DirIn THEN 0 ELSE 1
       IN  /\ reg' = store(reg, offset,
                        or(andNot(dtmp[t], shl(W7, shift)),
                           shl(modeWord(mode), shift)))
           /\ want' = [want EXCEPT ![dpin[t]] = mode]
    /\ dtmp' = [dtmp EXCEPT ![t] = {}]
    /\ dpc' = [dpc EXCEPT ![t] = "Unlock"]
    /\ UNCHANGED <<mutex, dpin, ddir, nwrites, dlast, drd,
                   sysVars, debVars, pullVars>>

\* drv.mutex.Unlock()
SetDirUnlock(t) ==
    /\ dpc[t] = "Unlock"
    /\ mutex' = 0
    /\ dpc' = [dpc EXCEPT ![t] = "idle"]
    /\ UNCHANGED <<reg, dpin, ddir, dtmp, want, nwrites, dlast, drd,
                   sysVars, debVars, pullVars>>

\* gpio.Pull, and the val SetPullUpDown writes for it.
PullOff == 0
PullDown == 1
PullUp == 2
Pulls == {PullOff, PullDown, PullUp}
pullVal(pull) ==
    IF pull = PullOff THEN {} ELSE IF pull = PullDown THEN {0} ELSE {1}

\* The pins SetPullUpDown is called on: the first and the last bit of each
\* clock word in use.
PullPins == {0, 31, 32, MaxPin}

\* Pin.SetPullUpDown is called by thread t.
DrvSetPullUpDown(t, p, pull) ==
    /\ dpc[t] = "idle"
    /\ dpc' = [dpc EXCEPT ![t] = "pLock"]
    /\ dpin' = [dpin EXCEPT ![t] = p]
    /\ dpull' = [dpull EXCEPT ![t] = pull]
    /\ acc' = [acc EXCEPT ![t] = <<>>]
    /\ UNCHANGED <<reg, mutex, ddir, dtmp, want, nwrites, dlast, drd,
                   sysVars, debVars>>

\* SetPullUpDown going on without drv.mutex.
PullLockSkipped(t) ==
    /\ dpc[t] = "pLock"
    /\ mutex' = t
    /\ dpc' = [dpc EXCEPT ![t] = "control"]
    /\ UNCHANGED <<reg, dpin, ddir, dtmp, want, nwrites, dlast, drd, pullVars,
                   sysVars, debVars>>

\* drv.mutex.Lock()
PullLock(t) ==
    /\ dpc[t] = "pLock"
    /\ mutex = 0
    /\ mutex' = t
    /\ dpc' = [dpc EXCEPT ![t] = "control"]
    /\ UNCHANGED <<reg, dpin, ddir, dtmp, want, nwrites, dlast, drd, pullVars,
                   sysVars, debVars>>

\* "drv.reg[o] = w" by thread t in SetPullUpDown, going on to next.
pullStore(t, o, w, next) ==
    /\ reg' = store(reg, o, w)
    /\ acc' = [acc EXCEPT ![t] = Append(@, <<o, w>>)]
    /\ dpc' = [dpc EXCEPT ![t] = next]
    /\ UNCHANGED <<mutex, dpin, ddir, dtmp, want, nwrites, dlast, drd, dpull,
                   sysVars, debVars>>

\* time.Sleep(pullUpDnClkDelay) by thread t, going on to next.
pullSleep(t, next) ==
    /\ acc' = [acc EXCEPT ![t] = Append(@, <<"Sleep">>)]
    /\ dpc' = [dpc EXCEPT ![t] = next]
    /\ UNCHANGED <<reg, mutex, dpin, ddir, dtmp, want, nwrites, dlast, drd,
                   dpull, sysVars, debVars>>

clkOffset(pin) == pullUpDnClkOffset + pin \div 32

\* drv.reg[pullUpDnOffset] = val
PullControl(t) ==
    /\ dpc[t] = "control"
    /\ pullStore(t, pullUpDnOffset, pullVal(dpull[t]), "sleep1")

PullSleep1(t) ==
    /\ dpc[t] = "sleep1"
    /\ pullSleep(t, "clock")

\* drv.reg[clkOffset] = 1 << (uint(pin) & 31)
PullClock(t) ==
    /\ dpc[t] = "clock"
    /\ pullStore(t, clkOffset(dpin[t]), shl(W1, dpin[t] % 32), "sleep2")

PullSleep2(t) ==
    /\ dpc[t] = "sleep2"
    /\ pullSleep(t, "control0")

\* drv.reg[pullUpDnOffset] = 0
PullControl0(t) ==
    /\ dpc[t] = "control0"
    /\ pullStore(t, pullUpDnOffset, {}, "clock0")

\* drv.reg[clkOffset] = 0
PullClock0(t) ==
    /\ dpc[t] = "clock0"
    /\ pullStore(t, clkOffset(dpin[t]), {}, "pUnlock")

\* drv.mutex.Unlock()
PullUnlock(t) ==
    /\ dpc[t] = "pUnlock"
    /\ mutex' = 0
    /\ dpc' = [dpc EXCEPT ![t] = "idle"]
    /\ UNCHANGED <<reg, dpin, ddir, dtmp, want, nwrites, dlast, drd, pullVars,
                   sysVars, debVars>>

\* ------------------------------------------------------------- the system
InitSys ==
    /\ ch = [p \in Pins |-> Nil]
    /\ trigger = [p \in Pins |-> EdgeNone]
    /\ value = [p \in Pins |-> "0"]
    /\ direction = [p \in Pins |-> "in"]
    /\ edge = [p \in Pins |-> "none"]
    /\ notify = [p \in Pins |-> FALSE]
    /\ pc = [t \in Pins |-> "idle"]
    /\ op = [t \in Pins |-> "none"]
    /\ ret = [t \in Pins |-> "-"]
    /\ rval = [t \in Pins |-> 0]
    /\ add = <<>>
    /\ remove = <<>>
    /\ wakeup = 0
    /\ pins = {}
    /\ registered = {}
    /\ events = <<>>
    /\ spc = "EpollWait"
    /\ spin = NoPin
    /\ sval = 0
    /\ fdOpen = [p \in Pins |-> TRUE]
    /\ exported = [p \in Pins |-> TRUE]
    /\ wasArmed = [t \in Pins |-> FALSE]
    /\ teardown = [t \in Pins |-> <<>>]
    /\ dstate = "none"
    /\ interval = 0
    /\ dtrigger = EdgeNone
    /\ dvalue = 0
    /\ debounce = FALSE
    /\ timer = TimerOff
    /\ timerC = FALSE
    /\ gpc = "off"
    /\ gch = FALSE
    /\ gval = 0
    /\ outClosed = FALSE
    /\ quiet = 0
    /\ gapOK = TRUE

\* The driver's threads and counters before any call.
InitCalls ==
    /\ mutex = 0
    /\ dpc = [t \in DrvThreads |-> "idle"]
    /\ dpin = [t \in DrvThreads |-> 0]
    /\ ddir = [t \in DrvThreads |-> DirIn]
    /\ dtmp = [t \in DrvThreads |-> {}]
    /\ want = [p \in DirPins |-> NoMode]
    /\ nwrites = 0
    /\ dlast = <<>>
    /\ drd = NoRead
    /\ dpull = [t \in DrvThreads |-> PullOff]
    /\ acc = [t \in DrvThreads |-> <<>>]

\* The window with every function select word f, every level word l and the
\* pull words 0.
window(f, l) == [o \in FselWords \cup LevelWords \cup PullWords |->
                    IF o \in FselWords THEN f
                    ELSE IF o \in LevelWords THEN l ELSE {}]

Init ==
    /\ InitSys
    /\ InitCalls
    /\ reg = window({}, {})

\* The calls of the thread that uses pin t, while arming and disarming it.
Caller(t) ==
    \/ ch[t] = Nil /\ PinTrigger(t, EdgeBoth, TRUE)
    \/ addPin(t)
    \/ addPinWake(t)
    \/ ch[t] # Nil /\ TriggerClose(t)
    \/ deletePin(t)
    \/ deletePinWake(t)
    \/ CloseDrain(t)
    \/ CloseClear(t, TRUE)
    \/ Recv(t)

Next ==
    \/ \E t \in Pins : Caller(t)
    \/ \E p \in Pins : Interrupt(p)
    \/ serve

Spec == Init /\ [][Next]_vars

\* One pin under every call of the Pin interface, with the writes of the
\* edge file succeeding or failing.
PinCaller(t) ==
    \/ PinRead(t)
    \/ \E v \in WriteValues : PinWrite(t, v)
    \/ \E d \in Directions : PinSetDirection(t, d)
    \/ \E e \in ArmEdges, ok \in BOOLEAN : PinTrigger(t, e, ok)
    \/ addPin(t)
    \/ addPinWake(t)
    \/ TriggerClose(t)
    \/ deletePin(t)
    \/ deletePinWake(t)
    \/ CloseDrain(t)
    \/ \E ok \in BOOLEAN : CloseClear(t, ok)
    \/ Recv(t)

NextPin ==
    \/ PinCaller(1)
    \/ Interrupt(1)
    \/ serve

SpecPin == Init /\ [][NextPin]_vars
\* A debounce filter on one pin: its construction, the interrupts of the
\* pin, the reactor, the goroutine, the timer, the application receiving
\* from the filter, and the filter's Close.
DebCaller(t) ==
    \/ \E i \in DebIntervals : DebNewRead(t, i)
    \/ \E e \in Edges \ {EdgeNone} : DebNewTrigger(t, e)
    \/ addPin(t)
    \/ addPinWake(t)
    \/ DebNewStart(t)
    \/ DebClose(t)
    \/ deletePin(t)
    \/ deletePinWake(t)
    \/ CloseDrain(t)
    \/ CloseClear(t, TRUE)
    \/ \E drop \in BOOLEAN : DebCloseDrain(t, drop)

goroutine(p) ==
    \/ goStart
    \/ goSelect(p)
    \/ goTimer
    \/ goRecv(p)

NextDeb ==
    \/ \E t \in DebPins : DebCaller(t)
    \/ \E p \in DebPins : goroutine(p)
    \/ \E p \in DebPins : Interrupt(p)
    \/ \E drop \in BOOLEAN : DebRecv(drop)
    \/ TimerFire
    \/ Tick
    \/ serve

SpecDeb == Init /\ [][NextDeb]_vars

\* Scheduling: the reactor's thread, a caller inside a call, the goroutine
\* and the runtime's timer each take their next step when it stays
\* possible, and time passes. Nothing obliges the application to start a
\* call or to receive from a channel.
InCall(t) ==
    \/ addPin(t)
    \/ addPinWake(t)
    \/ deletePin(t)
    \/ deletePinWake(t)
    \/ CloseDrain(t)
    \/ CloseClear(t, TRUE)

FairDeb ==
    /\ WF_vars(serve)
    /\ \A t \in DebPins : WF_vars(InCall(t))
    /\ \A t \in DebPins : WF_vars(DebNewStart(t))
    /\ \A t \in DebPins : WF_vars(\E drop \in BOOLEAN : DebCloseDrain(t, drop))
    /\ \A p \in DebPins : WF_vars(goroutine(p))
    /\ WF_vars(TimerFire)
    /\ WF_vars(Tick)

FairSpecDeb == SpecDeb /\ FairDeb

\* A caller blocked in a channel send or a pipe write is served in its
\* turn (the wait queues of the Go runtime and of the kernel are first in,
\* first out), so a step of a call that is possible again and again is
\* taken.
Fair ==
    /\ WF_vars(serve)
    /\ \A t \in Pins : SF_vars(InCall(t))

FairSpec == Spec /\ Fair

\* The reactor and its callers, with fatal errors of the reactor.
NextFail ==
    \/ Next
    \/ serveFail

SpecFail == Init /\ [][NextFail]_vars

FairSpecFail == SpecFail /\ Fair

\* Two threads that each arm their pin once and then receive from it.
ArmCaller(t) ==
    \/ ch[t] = Nil /\ PinTrigger(t, EdgeBoth, TRUE)
    \/ addPin(t)
    \/ addPinWake(t)
    \/ Recv(t)

NextArm ==
    \/ \E t \in Pins : ArmCaller(t)
    \/ \E p \in Pins : Interrupt(p)
    \/ serve

SpecArm == Init /\ [][NextArm]_vars

FairArm ==
    /\ WF_vars(serve)
    /\ \A t \in Pins : WF_vars(addPin(t) \/ addPinWake(t))

FairSpecArm == SpecArm /\ FairArm
\* A thread that arms its pin while the pin is open and closes the pin.
CloseCaller(t) ==
    \/ ch[t] = Nil /\ fdOpen[t] /\ exported[t] /\ PinTrigger(t, EdgeBoth, TRUE)
    \/ addPin(t)
    \/ addPinWake(t)
    \/ PinClose(t)
    \/ deletePin(t)
    \/ deletePinWake(t)
    \/ CloseDrain(t)
    \/ \E ok \in BOOLEAN : PinCloseDisarmed(t, ok)
    \/ \E ok \in BOOLEAN : PinCloseFd(t, ok)
    \/ \E ok \in BOOLEAN : PinCloseUnexport(t, ok)

NextClose ==
    \/ CloseCaller(1)
    \/ Interrupt(1)
    \/ serve

SpecClose == Init /\ [][NextClose]_vars

\* ---------------------------------------------------- the register driver
\* Contents of a level word before the calls: all low, all high, and the
\* even and the odd bits high.
LevelInits == {{}, Bits, {b \in Bits : b % 2 = 0}, {b \in Bits : b % 2 = 1}}

InitLevel ==
    /\ InitSys
    /\ InitCalls
    /\ \E l \in LevelInits : reg = window({}, l)

NextLevel ==
    \/ \E p \in 0 .. MaxPin, v \in {0, 1} : DrvWrite(p, v)
    \/ \E p \in 0 .. MaxPin : DrvRead(p)

SpecLevel == InitLevel /\ [][NextLevel]_vars

\* Contents of a function select word before the calls: every pin an input,
\* every pin an output, every bit 1.
FselInits == {{}, {b \in 0 .. 29 : b % 3 = 0}, Bits}

InitFsel ==
    /\ InitSys
    /\ InitCalls
    /\ \E f \in FselInits : reg = window(f, {})

DrvCaller(t) ==
    \/ \E p \in DirPins, d \in Directions : DrvSetDirection(t, p, d)
    \/ SetDirLock(t)
    \/ SetDirLoad(t)
    \/ SetDirStore(t)
    \/ SetDirUnlock(t)

NextFsel == \E t \in DrvThreads : DrvCaller(t)

SpecFsel == InitFsel /\ [][NextFsel]_vars

\* Threads that call SetPullUpDown and SetDirection.
PullCaller(t) ==
    \/ \E p \in PullPins, pull \in Pulls : DrvSetPullUpDown(t, p, pull)
    \/ PullLock(t)
    \/ PullControl(t)
    \/ PullSleep1(t)
    \/ PullClock(t)
    \/ PullSleep2(t)
    \/ PullControl0(t)
    \/ PullClock0(t)
    \/ PullUnlock(t)
    \/ \E p \in {0, MaxPin}, d \in Directions : DrvSetDirection(t, p, d)
    \/ SetDirLock(t)
    \/ SetDirLoad(t)
    \/ SetDirStore(t)
    \/ SetDirUnlock(t)

NextPull == \E t \in DrvThreads : PullCaller(t)

SpecPull == Init /\ [][NextPull]_vars

\* ================================================================ claims

\* C1: while the reactor runs, every gpioTrigger.Close call on an armed pin
\* eventually returns.
C1_CloseReturns ==
    \A t \in Pins :
        (op[t] = "Close" /\ ret[t] = "-") ~> (op[t] = "Close" /\ ret[t] # "-")

\* A call of Read, Write or SetDirection by thread t.
DirectCall(t) ==
    \/ PinRead(t)
    \/ \E v \in WriteValues : PinWrite(t, v)
    \/ \E d \in Directions : PinSetDirection(t, d)

\* C2: while pin.ch is non-nil, Read, Write and SetDirection return
\* ErrTrigger and leave the value file, the direction file and the pin as
\* they were.
C2_ArmedRefusesDirectIO ==
    [][\A t \in Pins :
        (ch[t] # Nil /\ DirectCall(t)) =>
            /\ ret'[t] = "ErrTrigger"
            /\ UNCHANGED <<pinVars, rval, srvVars>>]_vars

C2_Witness ==
    \E t \in Pins :
        /\ ch[t] # Nil
        /\ pc[t] = "idle"
        /\ op[t] = "SetDirection"
        /\ ret[t] = "ErrTrigger"

\* Thread t's last call was a Close that returned nil.
ClosedOK(t) == pc[t] = "idle" /\ op[t] = "Close" /\ ret[t] = "nil"

\* C3: once Close has returned nil, pin.ch is nil, the pin is neither in the
\* reactor's map nor registered with the epoll handle, and a following Read,
\* Write or SetDirection does not return ErrTrigger.
C3_RoundTrip ==
    [][\A t \in Pins :
        /\ ClosedOK(t)' =>
              ch'[t] = Nil /\ t \notin pins' /\ t \notin registered'
        /\ (ClosedOK(t) /\ DirectCall(t)) => ret'[t] # "ErrTrigger"]_vars

C3_Witness ==
    \E t \in Pins :
        /\ ClosedOK(t)
        /\ trigger[t] # EdgeNone
        /\ edge[t] = "none"
        /\ t \notin pins

\* C4: Close on a handle whose pin.ch is nil returns ErrInvalid at once: no
\* remove request, no wakeup byte, no blocking step.
C4_CloseUnarmedInvalid ==
    [][\A t \in Pins :
        (ch[t] = Nil /\ TriggerClose(t)) =>
            /\ ret'[t] = "ErrInvalid"
            /\ pc'[t] = "idle"
            /\ UNCHANGED <<pinVars, srvVars>>]_vars

C4_Witness ==
    \E t \in Pins :
        /\ op[t] = "Close"
        /\ ret[t] = "ErrInvalid"
        /\ pc[t] = "idle"
        /\ trigger[t] # EdgeNone

\* C5: for an event of a tracked pin the reactor reads the value, sends it
\* when the channel holds fewer than ChanCap values and drops it when the
\* channel is full; the send it attempts never blocks and never panics.
C5_PublishOrDrop ==
    [][/\ (spc = "events" /\ spc' = "publish") =>
              spin' \in pins /\ sval' = (IF value[spin'] = "1" THEN 1 ELSE 0)
       /\ (spc = "publish" /\ spc' # "publish") =>
              /\ ch' = ch
              /\ spc' = IF Len(ch[spin].buf) < ChanCap
                          THEN "send" ELSE ServeNext(events)
       /\ spc = "send" =>
              /\ ch[spin] # Nil
              /\ ~ch[spin].closed
              /\ Len(ch[spin].buf) < ChanCap
              /\ ENABLED serveSend
       /\ (spc = "send" /\ spc' # "send") =>
              /\ ch'[spin] = [ch[spin] EXCEPT !.buf = Append(@, sval)]
              /\ spc' = ServeNext(events)]_vars

C5_Witness ==
    /\ spc = "publish"
    /\ Len(ch[spin].buf) = ChanCap
    /\ \E q \in Pins \ {spin} : ch[q].buf # <<>>

\* Thread t's Trigger has returned and the pin is armed.
Armed(t) == pc[t] = "idle" /\ ch[t] # Nil /\ op[t] = "Trigger" /\ ret[t] = "nil"

\* Every wakeup byte written has been read and the reactor waits again.
Handled == wakeup = 0 /\ spc = "EpollWait"

\* C6: neither addPin call blocks forever, and once the reactor has read
\* every wakeup byte written and waits again, each pin whose Trigger returned
\* is in the map and registered, with no request left in the add queue; an
\* interrupt of a registered pin is read by the reactor.
C6_BothRegistered ==
    /\ [](Handled =>
            /\ \A t \in Pins : Armed(t) => t \in pins /\ t \in registered
            /\ (\A t \in Pins : pc[t] # "addPinWake") => add = <<>>)
    /\ \A t \in Pins :
            (pc[t] \in {"addPin", "addPinWake"}) ~> Armed(t)
    /\ \A t \in Pins :
            (pc[t] \in {"addPin", "addPinWake"}) ~>
                (t \in pins /\ t \in registered)
    /\ \A p \in Pins :
            (p \in registered /\ notify[p]) ~> (spin = p /\ spc = "publish")

C6_Witness ==
    /\ Handled
    /\ \A t \in Pins : Armed(t) /\ ch[t].buf # <<>>
    /\ pins = Pins

\* C7: after a publication downstream no further value is published before
\* a full interval has passed.
C7_QuietInterval == gapOK

\* C8: while the reactor runs, gpioDebounce.Close returns, with the upstream
\* trigger disarmed, out closed and the goroutine gone.
C8_DebounceCloseReturns ==
    (dstate = "closing") ~>
        (dstate = "closed" /\ outClosed /\ gpc = "exit"
            /\ \A p \in DebPins : ch[p] = Nil)
\* C9: Write(p, 1) makes Read(p) 1 and Write(p, 0) makes Read(p) 0, whatever
\* the level words held, and leaves Read(q) of every other pin q as it was;
\* a Read that follows returns that value.
C9_WriteReadIsolation ==
    [][/\ nwrites' # nwrites =>
            LET p == dlast'[1]
                v == dlast'[2]
            IN  /\ pinLevel(reg', p) = v
                /\ \A q \in (0 .. MaxPin) \ {p} :
                        pinLevel(reg', q) = pinLevel(reg, q)
       /\ (drd = NoRead /\ drd' # NoRead /\ dlast # <<>>) =>
            /\ drd'[2] = pinLevel(reg, drd'[1])
            /\ drd'[1] = dlast[1] => drd'[2] = dlast[2]]_vars

C9_Witness ==
    /\ dlast = <<MaxPin, 1>>
    /\ drd = <<MaxPin, 1>>
    /\ \A q \in 0 .. MaxPin - 1 : pinLevel(reg, q) = 0

\* C10: the store of SetDirection(N, dir) makes pin N's three function
\* select bits 0 for input and 1 for output and changes no other bit of the
\* window, and every pin keeps the mode last stored for it.
C10_SetDirectionFrame ==
    /\ [][\A t \in DrvThreads :
            SetDirStore(t) =>
                LET offset == fselOffset + dpin[t] \div 10
                    shift == (dpin[t] % 10) * 3
                    field(o) == IF o = offset
                                  THEN {shift, shift + 1, shift + 2}
                                  ELSE {}
                IN  /\ fselField(reg', dpin[t]) =
                            (IF ddir[t] = DirIn THEN {} ELSE W1)
                    /\ \A o \in DOMAIN reg :
                            reg'[o] \ field(o) = reg[o] \ field(o)
                    /\ \A q \in (0 .. MaxPin) \ {dpin[t]} :
                            Direction(reg', q) = Direction(reg, q)]_vars
    /\ [](\A p \in DirPins :
            want[p] # NoMode =>
                /\ fselField(reg, p) = modeWord(want[p])
                /\ Direction(reg, p) = (IF want[p] = 0 THEN DirIn ELSE DirOut))

C10_Witness ==
    /\ dpc[1] = "Unlock" /\ dpin[1] = 0 /\ ddir[1] = DirOut
    /\ dpc[2] = "Lock" /\ dpin[2] = 9
    /\ want[9] = 0
    /\ fselField(reg, 0) = W1
    /\ fselField(reg, 9) = {}
    /\ fselField(reg, 1) = W7
\* The steps of a Pin.Close that began with pin.ch non-nil, or nil.
TeardownOrder(armed) ==
    IF armed THEN <<"disarm", "fd", "unexport">> ELSE <<"fd", "unexport">>

\* C11: Pin.Close disarms the trigger when the pin is armed, then closes the
\* value file, then unexports the pin; the first step that fails ends the
\* call, which returns that error, and no later step is made.
C11_CloseOrder ==
    /\ [](\A t \in Pins :
            op[t] = "PinClose" =>
                LET full == TeardownOrder(wasArmed[t])
                    n == Len(teardown[t])
                IN  /\ n <= Len(full)
                    /\ \A i \in 1 .. n :
                            /\ teardown[t][i][1] = full[i]
                            /\ i < n => teardown[t][i][2]
                    /\ ret[t] = "nil" => n = Len(full) /\ teardown[t][n][2]
                    /\ ret[t] = "EIO" => n > 0 /\ ~teardown[t][n][2]
                    /\ ret[t] = "-" => \A i \in 1 .. n : teardown[t][i][2])
    /\ [][\A t \in Pins :
            /\ fdOpen'[t] # fdOpen[t] =>
                    /\ ch[t] = Nil /\ t \notin pins
                    /\ ~fdOpen'[t] /\ exported'[t]
            /\ exported'[t] # exported[t] => ~fdOpen[t] /\ ~exported'[t]
            /\ (op[t] = "PinClose" /\ ret[t] = "-" /\ ret'[t] = "EIO") =>
                    /\ pc'[t] = "idle"
                    /\ fdOpen'[t] = fdOpen[t]
                    /\ exported'[t] = exported[t]
            /\ (op[t] = "PinClose" /\ ret[t] # "-" /\ ret'[t] # "-") =>
                    /\ ret'[t] = ret[t]
                    /\ teardown'[t] = teardown[t]
                    /\ fdOpen'[t] = fdOpen[t]
                    /\ exported'[t] = exported[t]]_vars

C11_Witness ==
    \E t \in Pins :
        /\ op[t] = "PinClose"
        /\ ret[t] = "EIO"
        /\ teardown[t] = <<<<"disarm", TRUE>>, <<"fd", FALSE>>>>
        /\ fdOpen[t]
        /\ exported[t]
\* C12: a filter constructed with an interval less than or equal to 0 uses
\* DefaultDebounceInterval for its timer and for every reset of it.
C12_DefaultInterval ==
    [][\A t \in DebPins, i \in DebIntervals :
        (i <= 0 /\ DebNewRead(t, i)) =>
            interval' = DefaultDebounceInterval]_vars
\* C13: when the reactor is about to dequeue a remove request, the pin is
\* tracked and no add request of that pin waits in the add queue: a remove
\* is never discarded as not tracked with the pin registered afterwards.
C13_RequestOrder ==
    (spc = "remove" /\ remove # <<>>) =>
        /\ Head(remove) \in pins
        /\ \A k \in 1 .. Len(add) : add[k] # Head(remove)
\* No caller is between its queue send and its pipe write.
NoneBetween == \A t \in Pins : pc[t] \notin {"addPinWake", "deletePinWake"}

\* C14: when the reactor waits, the wakeup pipe holds no byte and no caller
\* is between its queue send and its pipe write, both queues are empty.
C14_NoStrandedRequest ==
    (spc = "EpollWait" /\ wakeup = 0 /\ NoneBetween) =>
        add = <<>> /\ remove = <<>>

C14_Witness ==
    /\ spc = "EpollWait"
    /\ wakeup = 0
    /\ NoneBetween
    /\ \E t \in Pins : pc[t] = "drain" /\ ch[t].closed
    /\ \E t \in Pins : Armed(t) /\ t \in pins
\* C15: once serve has returned it never runs again, and a caller at the
\* queue send of addPin or deletePin gets past it.
C15_FailStopReturns ==
    /\ [][spc = "dead" => spc' = "dead"]_vars
    /\ \A t \in Pins :
            (spc = "dead" /\ pc[t] \in {"addPin", "deletePin"}) ~>
                (pc[t] \notin {"addPin", "deletePin"})
\* C19: once serve has returned on an error it stays so; from then on no
\* channel gets a value, no channel is closed, an armed pin's channel is
\* open, and a Close whose channel is open does not get past its drain.
C19_ErrorStopsAllPins ==
    [][spc = "dead" =>
        /\ spc' = "dead"
        /\ UNCHANGED <<pins, registered>>
        /\ \A p \in Pins :
            /\ (ch[p] # Nil /\ ch'[p] # Nil) =>
                    /\ Len(ch'[p].buf) <= Len(ch[p].buf)
                    /\ ch'[p].closed = ch[p].closed
            /\ (ch[p] # Nil /\ pc[p] = "idle") => ~ch[p].closed
            /\ (ch[p] # Nil /\ ~ch[p].closed /\ op[p] = "Close"
                    /\ ret[p] = "-") =>
                    /\ ret'[p] = "-"
                    /\ pc'[p] \in {"deletePin", "deletePinWake", "drain"}]_vars

C19_Witness ==
    /\ spc = "dead"
    /\ events # <<>>
    /\ Head(events) \in pins
    /\ notify[Head(events)]
    /\ \E t \in Pins \ {Head(events)} :
            /\ t \in pins
            /\ pc[t] = "drain"
            /\ ch[t].buf = <<>>
            /\ ~ch[t].closed
\* What one SetPullUpDown(pull) of a pin does to the registers, in order.
PullSequence(pin, pull) ==
    << <<pullUpDnOffset, pullVal(pull)>>, <<"Sleep">>,
       <<clkOffset(pin), shl(W1, pin % 32)>>, <<"Sleep">>,
       <<pullUpDnOffset, {}>>, <<clkOffset(pin), {}>> >>

\* Thread t is inside SetPullUpDown, between Lock and Unlock.
InPull(t) == dpc[t] \in {"control", "sleep1", "clock", "sleep2", "control0",
                         "clock0", "pUnlock"}
\* Thread t has made a register access of its call and has one more to make.
MidCall(t) == dpc[t] \in {"store", "sleep1", "clock", "sleep2", "control0",
                          "clock0"}
\* Thread t is at a register access of its call.
AtAccess(t) == dpc[t] \in {"load", "store", "control", "clock", "control0",
                           "clock0"}

\* C16: SetPullUpDown holds the mutex from its first register access to its
\* last, makes exactly the accesses control = pull mode, delay, clock = pin
\* bit, delay, control = 0, clock = 0 in that order, and no other call's
\* register access falls between two accesses of one call.
C16_PullSequence ==
    /\ [](\A t \in DrvThreads :
            /\ InPull(t) =>
                /\ mutex = t
                /\ Len(acc[t]) <= 6
                /\ acc[t] = SubSeq(PullSequence(dpin[t], dpull[t]), 1,
                                   Len(acc[t]))
                /\ Len(acc[t]) =
                     CASE dpc[t] = "control" -> 0
                       [] dpc[t] = "sleep1" -> 1
                       [] dpc[t] = "clock" -> 2
                       [] dpc[t] = "sleep2" -> 3
                       [] dpc[t] = "control0" -> 4
                       [] dpc[t] = "clock0" -> 5
                       [] dpc[t] = "pUnlock" -> 6
            /\ dpc[t] = "sleep2" =>
                /\ reg[pullUpDnOffset] = pullVal(dpull[t])
                /\ reg[clkOffset(dpin[t])] = shl(W1, dpin[t] % 32)
            /\ dpc[t] = "pUnlock" =>
                /\ reg[pullUpDnOffset] = {}
                /\ reg[clkOffset(dpin[t])] = {})
    /\ [][\A t \in DrvThreads :
            (AtAccess(t) /\ dpc'[t] # dpc[t]) =>
                \A u \in DrvThreads \ {t} : ~MidCall(u)]_vars

C16_Witness ==
    /\ dpc[1] = "pUnlock"
    /\ dpin[1] = MaxPin
    /\ dpull[1] = PullUp
    /\ acc[1] = PullSequence(MaxPin, PullUp)
    /\ dpc[2] = "Lock"
    /\ \E p \in PullPins : acc[2] = PullSequence(p, PullDown)
\* The goroutine takes a value from the pin's channel in this step.
TakesValue(p) ==
    /\ gpc = "select"
    /\ gpc' # "select"
    /\ ch[p] # Nil
    /\ ch'[p] # Nil
    /\ Len(ch'[p].buf) < Len(ch[p].buf)

\* C17: a value v taken from upstream is a candidate exactly when the edge
\* is rising and v = 1, or falling and v = 0, or v is not the baseline; a
\* candidate becomes the baseline, and goes downstream, with the flag set
\* and the timer reset to the interval once it is sent, exactly when the
\* flag was clear; a candidate under the flag and a non-candidate leave the
\* flag and the timer alone, the latter the baseline too; a timer tick only
\* clears the flag.
C17_DebounceStep ==
    [][\A p \in DebPins :
        /\ TakesValue(p) =>
            LET v == Head(ch[p].buf)
                cand == \/ dtrigger = EdgeRising /\ v = 1
                        \/ dtrigger = EdgeFalling /\ v = 0
                        \/ v # dvalue
            IN  /\ dvalue' = (IF cand THEN v ELSE dvalue)
                /\ (gpc' = "send") = (cand /\ ~debounce)
                /\ gpc' = "send" => gval' = v
                /\ gpc' # "send" => gpc' = "loop"
                /\ UNCHANGED <<debounce, timer, timerC>>
        /\ (gpc' = "send" /\ gpc # "send") => TakesValue(p)
        /\ (gpc = "send" /\ gpc' # "send") =>
            /\ debounce'
            /\ timer' = interval
            /\ gpc' = "loop"
            /\ UNCHANGED dvalue
        /\ (debounce' /\ ~debounce) => gpc = "send"
        /\ (gpc = "select" /\ timerC /\ ~timerC') =>
            /\ ~debounce'
            /\ gpc' = "loop"
            /\ UNCHANGED <<dvalue, timer, gval, ch, outClosed>>]_vars

\* The filter has published and is suppressing, its timer has one unit to
\* go, and the goroutine is at the select with a candidate at the head of
\* the pin's channel and no tick to take.
C17_Witness ==
    /\ gpc = "select"
    /\ gch
    /\ dtrigger = EdgeRising
    /\ interval = AskInterval
    /\ debounce
    /\ timer = 1
    /\ ~timerC
    /\ quiet = 1
    /\ dvalue = 1
    /\ ch[1] # Nil
    /\ ch[1].buf # <<>>
    /\ Head(ch[1].buf) = 1

\* C20: Trigger on an armed pin returns nil at once and leaves the pin's
\* channel, stored edge mode, direction and edge files, and the reactor's
\* queues, pipe and map as they were, whatever edge is asked for.
C20_TriggerArmedNoop ==
    [][\A t \in Pins, e \in ArmEdges, ok \in BOOLEAN :
        (ch[t] # Nil /\ PinTrigger(t, e, ok)) =>
            /\ ret'[t] = "nil"
            /\ pc'[t] = "idle"
            /\ UNCHANGED <<pinVars, srvVars>>]_vars

\* An armed pin whose thread's last call, Trigger, returned nil, with the
\* first arming's edge mode stored and a value in the channel.
C20_Witness ==
    /\ ch[1] # Nil
    /\ ch[1].buf # <<>>
    /\ ~ch[1].closed
    /\ 1 \in registered
    /\ trigger[1] = EdgeRising
    /\ edge[1] = edgeStr(EdgeRising)
    /\ pc[1] = "idle"
    /\ op[1] = "Trigger"
    /\ ret[1] = "nil"
\* The channel of pin p is closed in this step.
Closes(p) == ch[p] # Nil /\ ~ch[p].closed /\ ch'[p] # Nil /\ ch'[p].closed

\* C18: the reactor never panics: a tracked pin's channel is neither nil nor
\* closed, and so is the channel of a send under way; a channel is closed
\* at the step that takes its pin out of the map and at no other; pin.ch
\* becomes nil only when the channel is closed and drained.
C18_NoPanic ==
    /\ [](/\ spc # "panic"
          /\ \A p \in pins : ch[p] # Nil /\ ~ch[p].closed
          /\ spc = "send" => ch[spin] # Nil /\ ~ch[spin].closed)
    /\ [][\A p \in Pins :
            /\ Closes(p) <=> (p \in pins /\ p \notin pins')
            /\ (ch[p] # Nil /\ ch[p].closed) => (ch'[p] = Nil \/ ch'[p].closed)
            /\ (ch[p] # Nil /\ ch'[p] = Nil) =>
                    ch[p].closed /\ ch[p].buf = <<>>]_vars

\* Pin 1's channel is closed with a value left in it, its thread is in
\* Close's loop, the pin is out of the map with an event of it still to be
\* served, and pin 2 is tracked.
C18_Witness ==
    /\ ch[1] # Nil
    /\ ch[1].closed
    /\ ch[1].buf # <<>>
    /\ pc[1] = "drain"
    /\ 1 \notin pins
    /\ \E k \in 1 .. Len(events) : events[k] = 1
    /\ 2 \in pins
====
